---- MODULE Spec2Model ----
(***************************************************************************)
(* The agent turn loop of src/ai.py: main's command loop, the per-turn     *)
(* provider/tool iteration, process_tool_calls and compress_chat_history.  *)
(*                                                                         *)
(* Texts (str values) are sequences of tokens.  A token is either a piece  *)
(* of plain text or one console-markup tag of the rich library, so that    *)
(* escape() and the markup parsing done by console.print are operators on  *)
(* texts and not the identity.  String literals of the program that are    *)
(* not ASCII are written here in English.                                  *)
(***************************************************************************)
EXTENDS Naturals, Sequences, FiniteSets, TLC

VARIABLES
    is_interactive_mode,  \* main: no command-line argument was given
    initial_query,        \* main: <<>> is None, <<q>> is the joined arguments q
    chat_history,         \* main: the list of messages
    last_prompt_tokens,   \* main: prompt tokens of the latest response
    pc,                   \* position of main
    i,                    \* main: the loop variable of `for i in range(max_iterations)`
    response,             \* main: the latest response chain.invoke returned
    tool_messages,        \* process_tool_calls: the list being built
    console,              \* the notices printed by the last step
    event,                \* what the last step got from outside: a line, a provider or tool outcome
    calls,                \* number of chain.invoke calls issued in the current turn
    argv                  \* sys.argv[1:], the command-line arguments

vars == <<is_interactive_mode, initial_query, chat_history, last_prompt_tokens,
          pc, i, response, tool_messages, console, event, calls, argv>>

\* ------------------------------------------------------------------ bounds

\* Most tool calls in one sampled provider response.
MaxCalls == 2

\* A history longer than this takes no new query and no sampled response:
\* from there a turn goes on only with the fixed one-call response LoopResponse.
MaxHist == 2

\* ------------------------------------------------------- program constants

max_iterations == 50

MAX_CONTEXT_TOKENS == 128000

\* The names of the tools list built in main.
tools ==
    { "run_command", "read_file", "write_file", "edit_file", "wikipedia",
      "create_image", "duckduckgo", "get_weather_data", "stackoverflow",
      "calculator", "solve_equation", "scrape_webpage", "get_git_repo",
      "query_wikidata", "open_url" }

\* ----------------------------------------------------- rich console markup

Backslash == "\\"

\* Opening tags: the styles the program's own templates use, and one that a
\* text from outside may hold.
OpenTags == { "[bold]", "[cyan]", "[bold green]", "[bold red]", "[dim]", "[sdcard]" }

\* "[/]" closes the style opened last.
ImplicitClose == "[/]"

\* A closing tag that names its style, and the opening tag it closes.
ExplicitClose == { "[/dim]", "[/sdcard]" }

CloseOf(t) == IF t = "[/dim]" THEN "[dim]" ELSE "[sdcard]"

IsTag(t) == t \in OpenTags \cup {ImplicitClose} \cup ExplicitClose

Repeat(t, n) == [j \in 1..n |-> t]

\* rich.markup.escape: every tag gets a backslash in front, and the
\* backslashes already in front of it are doubled.
RECURSIVE escape_from(_, _)
escape_from(markup, slashes) ==
    IF markup = <<>> THEN <<>>
    ELSE LET t == Head(markup) IN
         IF t = Backslash
           THEN <<t>> \o escape_from(Tail(markup), slashes + 1)
         ELSE IF IsTag(t)
           THEN Repeat(Backslash, slashes + 1) \o <<t>> \o escape_from(Tail(markup), 0)
         ELSE <<t>> \o escape_from(Tail(markup), 0)

escape(markup) == escape_from(markup, 0)

\* The position of the last occurrence of style in stack, 0 when absent.
LastIndexOf(stack, style) ==
    LET at == { j \in 1..Len(stack) : stack[j] = style } IN
    IF at = {} THEN 0 ELSE CHOOSE j \in at : \A l \in at : l <= j

RemoveAt(stack, j) == SubSeq(stack, 1, j - 1) \o SubSeq(stack, j + 1, Len(stack))

\* rich.markup.render: FALSE when it raises MarkupError.  A tag after an odd
\* number of backslashes is literal text.  An opening tag is pushed; "[/]"
\* pops the last open style and raises when none is open; "[/style]" removes
\* the last open tag of that style and raises when there is none.
RECURSIVE render(_, _, _)
render(markup, stack, slashes) ==
    IF markup = <<>> THEN TRUE
    ELSE LET t == Head(markup)
             rest == Tail(markup) IN
         IF t = Backslash THEN render(rest, stack, slashes + 1)
         ELSE IF ~IsTag(t) \/ slashes % 2 = 1 THEN render(rest, stack, 0)
         ELSE IF t \in OpenTags THEN render(rest, Append(stack, t), 0)
         ELSE IF t = ImplicitClose
           THEN stack # <<>> /\ render(rest, SubSeq(stack, 1, Len(stack) - 1), 0)
         ELSE LET j == LastIndexOf(stack, CloseOf(t)) IN
              j # 0 /\ render(rest, RemoveAt(stack, j), 0)

\* console.print(markup) returns (TRUE) or raises MarkupError (FALSE).
console_print(markup) == render(markup, <<>>, 0)

\* ------------------------------------------------------------------ texts

\* str.lower() on the tokens the sampled input lines are made of.
lower_token(t) ==
    CASE t = "EXIT" -> "exit"
      [] t = "Quit" -> "quit"
      [] t = "Q" -> "q"
      [] t = "/Compress" -> "/compress"
      [] OTHER -> t

lower(text) == [j \in 1..Len(text) |-> lower_token(text[j])]

Whitespace == { " " }

RECURSIVE lstrip(_)
lstrip(text) ==
    IF text # <<>> /\ Head(text) \in Whitespace THEN lstrip(Tail(text)) ELSE text

RECURSIVE rstrip(_)
rstrip(text) ==
    IF text # <<>> /\ text[Len(text)] \in Whitespace
      THEN rstrip(SubSeq(text, 1, Len(text) - 1))
      ELSE text

strip(text) == rstrip(lstrip(text))

\* --------------------------------------------------------------- messages

NoId == ""

HumanMessage(content) ==
    [role |-> "user", content |-> content, tool_calls |-> <<>>,
     name |-> <<>>, tool_call_id |-> NoId]

\* The response object appended to chat_history: its content and tool calls.
AIMessage(resp) ==
    [role |-> "assistant", content |-> resp.content, tool_calls |-> resp.tool_calls,
     name |-> <<>>, tool_call_id |-> NoId]

ToolMessage(content, name, tool_call_id) ==
    [role |-> "tool", content |-> content, tool_calls |-> <<>>,
     name |-> name, tool_call_id |-> tool_call_id]

\* No response has been returned yet.
NoResponse == [content |-> <<>>, tool_calls |-> <<>>, usage |-> {}]

\* ------------------------------------------------------ process_tool_calls

\* What func.invoke does for one request: it returns a result or raises.
ToolReturns(result) == [kind |-> "returned", text |-> result]

ToolRaises(detail) == [kind |-> "raised", text |-> detail]

\* display_tool_call: the panel holds the tool name as markup, unescaped;
\* str(Syntax(...)) is the object's repr, which holds no tag.
display_tool_call(tool_call) ==
    console_print(<<"[bold]", "Tool:", "[/]", "[cyan]">> \o tool_call.name
                  \o <<"[/]", "[bold]", "Arguments:", "[/]", "<Syntax object>">>)

\* tool_map.get(tool_call['name']) finds a tool.
Registered(name) == \E t \in tools : name = <<t>>

\* str(e) of the MarkupError console.print raises.
MarkupErrorText == <<"closing tag does not match any open tag">>

\* Mutant of tool_error: the except branch raises again instead of answering.
tool_error_reraises(tool_call, detail) ==
    [raised |-> TRUE, message |-> HumanMessage(<<>>), notices |-> <<"tool_call">>]

\* The except branch of process_tool_calls for an exception whose str() is detail.
tool_error(tool_call, detail) ==
    LET error_message ==
            <<"Error calling tool '">> \o tool_call.name \o <<"': ">> \o escape(detail)
    IN  IF console_print(error_message)
          THEN [raised |-> FALSE,
                message |-> ToolMessage(error_message, tool_call.name, tool_call.id),
                notices |-> <<"tool_call", "tool_error">>]
          ELSE [raised |-> TRUE, message |-> HumanMessage(<<>>),
                notices |-> <<"tool_call">>]

\* The body of `for tool_call in tool_calls` for one request, given what
\* func.invoke does: the ToolMessage appended, or raised when an exception
\* leaves process_tool_calls.
tool_result(tool_call, outcome) ==
    IF ~display_tool_call(tool_call)
      THEN [raised |-> TRUE, message |-> HumanMessage(<<>>), notices |-> <<>>]
    ELSE IF Registered(tool_call.name)
      THEN IF outcome.kind = "returned"
             THEN IF console_print(<<"[bold green]", "Result '">> \o tool_call.name
                                   \o <<"':", "[/]">> \o escape(outcome.text))
                    THEN [raised |-> FALSE,
                          message |-> ToolMessage(outcome.text, tool_call.name, tool_call.id),
                          notices |-> <<"tool_call", "tool_result">>]
                    ELSE tool_error(tool_call, MarkupErrorText)
             ELSE tool_error(tool_call, outcome.text)
    ELSE LET error_message == <<"Unknown tool: ">> \o tool_call.name IN
         IF console_print(<<"[bold red]">> \o error_message \o <<"[/]">>)
           THEN [raised |-> FALSE,
                 message |-> ToolMessage(error_message, tool_call.name, tool_call.id),
                 notices |-> <<"tool_call", "unknown_tool">>]
           ELSE [raised |-> TRUE, message |-> HumanMessage(<<>>),
                 notices |-> <<"tool_call">>]

\* ---------------------------------------------------- compress_chat_history

\* What the compressor's chain.invoke does: it returns a response whose
\* content is the summary, raises an Exception, or is interrupted.
Summarized(summary) == [kind |-> "returned", text |-> summary]

ProviderFailed == [kind |-> "raised", text |-> <<>>]

Interrupted == [kind |-> "interrupted", text |-> <<>>]

\* Mutant of compress_chat_history: the except branch returns an empty list.
compress_chat_history_drops(history, outcome) ==
    IF outcome.kind = "returned"
         /\ console_print(<<"[bold green]", "History compressed.", "[/]", "\n", "[dim]">>
                          \o outcome.text \o <<"[/dim]">>)
      THEN [history |-> <<HumanMessage(<<"This is a summary of the previous conversation:\n">>
                                        \o outcome.text)>>,
            notices |-> <<"compressing", "compressed">>]
      ELSE [history |-> <<>>, notices |-> <<"compressing", "compress_error">>]

\* compress_chat_history for an outcome that is not an interrupt: the list
\* returned and the notices printed.  The success panel is printed inside the
\* try, with the summary as markup, before the return.
compress_chat_history(history, outcome) ==
    IF outcome.kind = "returned"
         /\ console_print(<<"[bold green]", "History compressed.", "[/]", "\n", "[dim]">>
                          \o outcome.text \o <<"[/dim]">>)
      THEN [history |-> <<HumanMessage(<<"This is a summary of the previous conversation:\n">>
                                        \o outcome.text)>>,
            notices |-> <<"compressing", "compressed">>]
      ELSE [history |-> history, notices |-> <<"compressing", "compress_error">>]

\* ------------------------------------------------------------ usage_metadata

\* usage_metadata is a set of <<key, value>> pairs; {} is a missing or empty one.
HasKey(usage, key) == \E p \in usage : p[1] = key

\* usage.get(key, 0); usage.get(key) is None for a missing key, falsy like 0.
usage_get(usage, key) ==
    IF HasKey(usage, key) THEN (CHOOSE p \in usage : p[1] = key)[2] ELSE 0

\* Python's `a or b` on numbers.
Or(a, b) == IF a # 0 THEN a ELSE b

prompt_of(usage) == Or(usage_get(usage, "prompt_tokens"), usage_get(usage, "input_tokens"))

completion_of(usage) ==
    Or(Or(usage_get(usage, "completion_tokens"), usage_get(usage, "output_tokens")),
       usage_get(usage, "generated_tokens"))

total_of(usage) ==
    LET total == usage_get(usage, "total_tokens") IN
    IF total = 0 /\ (prompt_of(usage) > 0 \/ completion_of(usage) > 0)
      THEN prompt_of(usage) + completion_of(usage)
      ELSE total

\* Mutant of recorded_prompt_tokens: the total is stored in place of the prompt.
recorded_prompt_tokens_total(resp) == IF resp.usage # {} THEN total_of(resp.usage) ELSE 0

\* The value main stores in last_prompt_tokens after a successful call.
recorded_prompt_tokens(resp) == IF resp.usage # {} THEN prompt_of(resp.usage) ELSE 0

\* ------------------------------------------------------------ sampled inputs

\* Command lines: sys.argv[1:].
ArgvSamples ==
    { <<>>, << <<"list">>, <<"files">> >>, << <<"see">>, <<"[/sdcard]">> >>, << <<>> >> }

\* Lines typed at the prompt.
InputLines ==
    { <<" ", "EXIT">>, <<"Quit", " ">>, <<"q">>, <<"/Compress", " ">>, <<>>, <<" ", " ">>,
      <<"list files">>, <<" ", "see ", "[/sdcard]">> }

\* Tool names a response may ask for: registered, not registered, and not
\* registered with a closing markup tag in it.
NameSamples == { <<"run_command">>, <<"frobnicate">>, <<"[/sdcard]">> }

IdPool == <<"c1", "c2", "c3", "c4">>

ToolCall(name, pos) == [name |-> name, args |-> "args", id |-> IdPool[pos]]

ToolCallLists ==
    UNION { { [pos \in 1..n |-> ToolCall(names[pos], pos)] : names \in [1..n -> NameSamples] }
            : n \in 0..MaxCalls }

UsageSamples ==
    { {},
      { <<"input_tokens", 64000>>, <<"output_tokens", 10>>, <<"total_tokens", 64010>> },
      { <<"prompt_tokens", 200000>>, <<"completion_tokens", 5>> },
      { <<"generated_tokens", 7>> } }

LoopUsage == { <<"input_tokens", 64000>>, <<"output_tokens", 10>>, <<"total_tokens", 64010>> }

Response(tool_calls, usage) ==
    [content |-> IF tool_calls = <<>> THEN <<"4">> ELSE <<>>,
     tool_calls |-> tool_calls, usage |-> usage]

\* The one response a turn on a long history goes on with.
LoopResponse == Response(<<ToolCall(<<"run_command">>, 1)>>, LoopUsage)

LoopResult == <<"a.txt">>

\* The history of a first turn that began with query and saw n LoopResponses.
LoopHistory(query, n) ==
    [j \in 1..(1 + 2 * n) |->
        IF j = 1 THEN HumanMessage(query)
        ELSE IF j % 2 = 0 THEN AIMessage(LoopResponse)
        ELSE ToolMessage(LoopResult, <<"run_command">>, IdPool[1])]

Short == Len(chat_history) <= MaxHist

OnLoop == chat_history # <<>> /\ chat_history = LoopHistory(chat_history[1].content, i)

\* The successful responses of chain.invoke the model explores from this
\* state; on the last iteration of a turn that went on with LoopResponse, a
\* request for any sampled name is explored too.
Responses ==
    IF Short
      THEN { Response(tcs, LoopUsage) : tcs \in ToolCallLists }
           \cup { Response(tcs, u) : tcs \in {<<>>, LoopResponse.tool_calls}, u \in UsageSamples }
      ELSE { Response(<<>>, LoopUsage) }
           \cup (IF OnLoop THEN {LoopResponse} ELSE {})
           \cup (IF OnLoop /\ i = max_iterations - 1
                   THEN { Response(<<ToolCall(name, 1)>>, LoopUsage) : name \in NameSamples }
                   ELSE {})

\* What func.invoke may do, as explored from this state.
ToolOutcomes ==
    IF Short
      THEN { ToolReturns(LoopResult), ToolRaises(<<"No such file: ", "[/sdcard]">>) }
      ELSE { ToolReturns(LoopResult) }

SummarySamples == { <<"the user listed files">>, <<"files are in ", "[/sdcard]">> }

CompressOutcomes == { Summarized(s) : s \in SummarySamples } \cup { ProviderFailed, Interrupted }

\* " ".join(args)
RECURSIVE join(_)
join(args) ==
    IF args = <<>> THEN <<>>
    ELSE IF Len(args) = 1 THEN args[1]
    ELSE args[1] \o <<" ">> \o join(Tail(args))

\* ----------------------------------------------------------------- events

\* What a step got from its environment: kind is "input" (a line at the
\* prompt), "chain" (the turn's chain.invoke), "compressor" (the chain.invoke
\* of compress_chat_history), "tool" (func.invoke) or "none"; result is
\* "returned", "raised", "interrupted" or "none"; text is the summary, the
\* tool's result or the error detail; line is the line session.prompt
\* returned in that step, <<>> when it returned none.
Event(kind, result, text) ==
    [kind |-> kind, result |-> result, text |-> text, line |-> <<>>]

\* The event of a step that began with user_input typed at the prompt.
Entered(user_input, ev) == [ev EXCEPT !.line = user_input]

NoEvent == Event("none", "none", <<>>)

\* -------------------------------------------------------------------- main

Init ==
    /\ argv \in ArgvSamples
    /\ is_interactive_mode = ~(Len(argv) > 0)
    /\ initial_query = IF is_interactive_mode THEN <<>> ELSE <<join(argv)>>
    /\ chat_history = <<>>
    /\ last_prompt_tokens = 0
    /\ pc = "prompt"
    /\ i = 0
    /\ response = NoResponse
    /\ tool_messages = <<>>
    /\ console = <<"banner">>
    /\ event = NoEvent
    /\ calls = 0

ExitWords == { <<"exit">>, <<"quit">>, <<"q">> }

\* Mutant of IsExit: the line is compared as typed.
IsExit_Exact(user_input) == user_input \in ExitWords

IsExit(user_input) == strip(lower(user_input)) \in ExitWords

IsCompress(user_input) == strip(lower(user_input)) = <<"/compress">>

IsBlank(user_input) == strip(user_input) = <<>>

\* The context bar printed before the prompt.
context_notice == IF last_prompt_tokens > 0 THEN <<"context">> ELSE <<>>

\* `break` out of `while True`, and the exit notice after the loop.
Exit(notices) ==
    /\ pc' = "exit"
    /\ console' = notices \o <<"exit">>
    /\ tool_messages' = <<>>

\* The end of a turn: single-shot mode breaks, interactive mode goes back to
\* the prompt.
EndTurn(notices) ==
    IF is_interactive_mode
      THEN /\ pc' = "prompt"
           /\ console' = notices
           /\ tool_messages' = <<>>
      ELSE Exit(notices)

\* user_input is exit, quit or q: break.
Quit ==
    /\ pc = "prompt" /\ is_interactive_mode
    /\ \E user_input \in InputLines :
          /\ IsExit(user_input)
          /\ event' = Entered(user_input, Event("input", "returned", <<>>))
    /\ Exit(context_notice)
    /\ UNCHANGED <<is_interactive_mode, initial_query, chat_history, last_prompt_tokens,
                   i, response, calls, argv>>

\* session.prompt raises EOFError or KeyboardInterrupt: break.
PromptInterrupted ==
    /\ pc = "prompt" /\ is_interactive_mode
    /\ Exit(context_notice)
    /\ event' = Event("input", "interrupted", <<>>)
    /\ UNCHANGED <<is_interactive_mode, initial_query, chat_history, last_prompt_tokens,
                   i, response, calls, argv>>

\* Mutant of CompressCommand: the length of chat_history is not looked at.
CompressCommand_Unguarded ==
    /\ pc = "prompt" /\ is_interactive_mode
    /\ \E user_input \in InputLines, outcome \in CompressOutcomes :
          /\ ~IsExit(user_input) /\ IsCompress(user_input)
          /\ event' = Entered(user_input, Event("compressor", outcome.kind, outcome.text))
          /\ IF outcome.kind = "interrupted"
               THEN /\ Exit(context_notice \o <<"compressing">>)
                    /\ UNCHANGED <<chat_history, last_prompt_tokens>>
               ELSE LET r == compress_chat_history(chat_history, outcome) IN
                    /\ chat_history' = r.history
                    /\ last_prompt_tokens' = 0
                    /\ console' = context_notice \o r.notices
                    /\ UNCHANGED <<pc, tool_messages>>
    /\ UNCHANGED <<is_interactive_mode, initial_query, i, response, calls, argv>>

\* Mutant of CompressCommand: the stored prompt tokens are left as they were.
CompressCommand_KeepsUsage ==
    /\ pc = "prompt" /\ is_interactive_mode
    /\ Len(chat_history) > 1
    /\ \E user_input \in InputLines, outcome \in CompressOutcomes :
          /\ ~IsExit(user_input) /\ IsCompress(user_input)
          /\ event' = Entered(user_input, Event("compressor", outcome.kind, outcome.text))
          /\ IF outcome.kind = "interrupted"
               THEN /\ Exit(context_notice \o <<"compressing">>)
                    /\ UNCHANGED chat_history
               ELSE LET r == compress_chat_history(chat_history, outcome) IN
                    /\ chat_history' = r.history
                    /\ console' = context_notice \o r.notices
                    /\ UNCHANGED <<pc, tool_messages>>
    /\ UNCHANGED <<is_interactive_mode, initial_query, last_prompt_tokens, i, response,
                   calls, argv>>

\* Mutant of CompressCommand: the stored prompt tokens are zeroed only when
\* the summary has replaced chat_history.
CompressCommand_ZeroesOnSuccess ==
    /\ pc = "prompt" /\ is_interactive_mode
    /\ Len(chat_history) > 1
    /\ \E user_input \in InputLines, outcome \in CompressOutcomes :
          /\ ~IsExit(user_input) /\ IsCompress(user_input)
          /\ event' = Entered(user_input, Event("compressor", outcome.kind, outcome.text))
          /\ IF outcome.kind = "interrupted"
               THEN /\ Exit(context_notice \o <<"compressing">>)
                    /\ UNCHANGED <<chat_history, last_prompt_tokens>>
               ELSE LET r == compress_chat_history(chat_history, outcome) IN
                    /\ chat_history' = r.history
                    /\ last_prompt_tokens' =
                          IF r.history = chat_history THEN last_prompt_tokens ELSE 0
                    /\ console' = context_notice \o r.notices
                    /\ UNCHANGED <<pc, tool_messages>>
    /\ UNCHANGED <<is_interactive_mode, initial_query, i, response, calls, argv>>

\* /compress with more than one message: compress_chat_history, then the
\* stored prompt tokens are zeroed; an interrupt of the call ends the program.
CompressCommand ==
    /\ pc = "prompt" /\ is_interactive_mode
    /\ Len(chat_history) > 1
    /\ \E user_input \in InputLines, outcome \in CompressOutcomes :
          /\ ~IsExit(user_input) /\ IsCompress(user_input)
          /\ event' = Entered(user_input, Event("compressor", outcome.kind, outcome.text))
          /\ IF outcome.kind = "interrupted"
               THEN /\ Exit(context_notice \o <<"compressing">>)
                    /\ UNCHANGED <<chat_history, last_prompt_tokens>>
               ELSE LET r == compress_chat_history(chat_history, outcome) IN
                    /\ chat_history' = r.history
                    /\ last_prompt_tokens' = 0
                    /\ console' = context_notice \o r.notices
                    /\ UNCHANGED <<pc, tool_messages>>
    /\ UNCHANGED <<is_interactive_mode, initial_query, i, response, calls, argv>>

\* /compress with at most one message: a notice, nothing else.
CompressTooShort ==
    /\ pc = "prompt" /\ is_interactive_mode
    /\ \E user_input \in InputLines :
          /\ ~IsExit(user_input) /\ IsCompress(user_input)
          /\ event' = Entered(user_input, Event("input", "returned", <<>>))
    /\ ~(Len(chat_history) > 1)
    /\ console' = context_notice \o <<"too_short">>
    /\ UNCHANGED <<is_interactive_mode, initial_query, chat_history, last_prompt_tokens,
                   pc, i, response, tool_messages, calls, argv>>

\* An empty or blank line: continue.
EmptyInput ==
    /\ pc = "prompt" /\ is_interactive_mode
    /\ \E user_input \in InputLines :
          /\ ~IsExit(user_input) /\ ~IsCompress(user_input) /\ IsBlank(user_input)
          /\ event' = Entered(user_input, Event("input", "returned", <<>>))
    /\ console' = context_notice
    /\ UNCHANGED <<is_interactive_mode, initial_query, chat_history, last_prompt_tokens,
                   pc, i, response, tool_messages, calls, argv>>

\* Mutant of StartTurn: a full context makes the turn start on a new list.
StartTurn_DropsFullContext(user_input, notices) ==
    /\ chat_history' = IF last_prompt_tokens >= MAX_CONTEXT_TOKENS
                         THEN <<HumanMessage(user_input)>>
                         ELSE Append(chat_history, HumanMessage(user_input))
    /\ pc' = "model_call"
    /\ i' = 0
    /\ calls' = 0
    /\ console' = notices \o <<"rule">>
    /\ UNCHANGED <<is_interactive_mode, last_prompt_tokens, response, tool_messages, argv>>

\* The user message is appended and the for loop is entered.
StartTurn(user_input, notices) ==
    /\ chat_history' = Append(chat_history, HumanMessage(user_input))
    /\ pc' = "model_call"
    /\ i' = 0
    /\ calls' = 0
    /\ console' = notices \o <<"rule">>
    /\ UNCHANGED <<is_interactive_mode, last_prompt_tokens, response, tool_messages, argv>>

\* Any other line starts a turn.
Query ==
    /\ pc = "prompt" /\ is_interactive_mode
    /\ Short
    /\ \E user_input \in InputLines :
          /\ ~IsExit(user_input) /\ ~IsCompress(user_input) /\ ~IsBlank(user_input)
          /\ event' = Entered(user_input, Event("input", "returned", <<>>))
          /\ StartTurn(user_input, context_notice)
    /\ UNCHANGED initial_query

\* The echo of the query in single-shot mode: the query is markup, unescaped.
echo_query(user_input) ==
    console_print(<<"[bold green]", "Query:", "[/]", "[cyan]", " ">> \o user_input \o <<"[/]">>)

\* initial_query is None or the empty string.
NoQuery == initial_query = <<>> \/ initial_query = << <<>> >>

\* Single-shot mode, no query: an error notice, break.
SingleShotNoQuery ==
    /\ pc = "prompt" /\ ~is_interactive_mode
    /\ NoQuery
    /\ Exit(<<"need_query">>)
    /\ event' = NoEvent
    /\ UNCHANGED <<is_interactive_mode, initial_query, chat_history, last_prompt_tokens,
                   i, response, calls, argv>>

\* Single-shot mode, the echo raises: the outer handler reports a critical
\* error and the while loop goes round with initial_query as it was.
SingleShotEchoRaises ==
    /\ pc = "prompt" /\ ~is_interactive_mode
    /\ ~NoQuery
    /\ ~echo_query(initial_query[1])
    /\ console' = <<"critical_error">>
    /\ event' = NoEvent
    /\ UNCHANGED <<is_interactive_mode, initial_query, chat_history, last_prompt_tokens,
                   pc, i, response, tool_messages, calls, argv>>

\* Single-shot mode: the query is echoed, initial_query becomes None, the turn starts.
SingleShotQuery ==
    /\ pc = "prompt" /\ ~is_interactive_mode
    /\ ~NoQuery
    /\ echo_query(initial_query[1])
    /\ initial_query' = <<>>
    /\ event' = NoEvent
    /\ StartTurn(initial_query[1], <<"query">>)

\* Mutant of ProviderFails: the error is printed and the call is tried again.
ProviderFails_Retries ==
    /\ pc = "model_call"
    /\ console' = <<"iteration", "model_error">>
    /\ event' = Event("chain", "raised", <<>>)
    /\ calls' = calls + 1
    /\ UNCHANGED <<is_interactive_mode, initial_query, chat_history, last_prompt_tokens,
                   pc, i, response, tool_messages, argv>>

\* Mutant of ProviderFails: the failed turn takes chat_history with it.
ProviderFails_Forgets ==
    /\ pc = "model_call"
    /\ EndTurn(<<"iteration", "model_error">>)
    /\ event' = Event("chain", "raised", <<>>)
    /\ calls' = calls + 1
    /\ chat_history' = <<>>
    /\ UNCHANGED <<is_interactive_mode, initial_query, last_prompt_tokens,
                   i, response, argv>>

\* chain.invoke raises an Exception: the error is printed, break.
ProviderFails ==
    /\ pc = "model_call"
    /\ EndTurn(<<"iteration", "model_error">>)
    /\ event' = Event("chain", "raised", <<>>)
    /\ calls' = calls + 1
    /\ UNCHANGED <<is_interactive_mode, initial_query, chat_history, last_prompt_tokens,
                   i, response, argv>>

\* Mutant of ProviderInterrupted: the interrupt is taken for a failed call.
ProviderInterrupted_AsFailure ==
    /\ pc = "model_call"
    /\ EndTurn(<<"iteration", "model_error">>)
    /\ event' = Event("chain", "interrupted", <<>>)
    /\ calls' = calls + 1
    /\ UNCHANGED <<is_interactive_mode, initial_query, chat_history, last_prompt_tokens,
                   i, response, argv>>

\* chain.invoke is interrupted: the outer handler breaks.
ProviderInterrupted ==
    /\ pc = "model_call"
    /\ Exit(<<"iteration">>)
    /\ event' = Event("chain", "interrupted", <<>>)
    /\ calls' = calls + 1
    /\ UNCHANGED <<is_interactive_mode, initial_query, chat_history, last_prompt_tokens,
                   i, response, argv>>

\* Mutant of ProviderAnswers: no break, the for loop goes on after the answer.
ProviderAnswers_GoesOn ==
    /\ pc = "model_call"
    /\ i + 1 < max_iterations
    /\ \E resp \in Responses :
          /\ ~(resp.tool_calls # <<>>)
          /\ response' = resp
          /\ last_prompt_tokens' = recorded_prompt_tokens(resp)
          /\ chat_history' = Append(chat_history, AIMessage(resp))
    /\ i' = i + 1
    /\ console' = <<"iteration", "tokens", "task_done">>
    /\ event' = Event("chain", "returned", <<>>)
    /\ calls' = calls + 1
    /\ UNCHANGED <<is_interactive_mode, initial_query, pc, tool_messages, argv>>

\* A response without tool calls: usage stored, response appended, break.
ProviderAnswers ==
    /\ pc = "model_call"
    /\ \E resp \in Responses :
          /\ ~(resp.tool_calls # <<>>)
          /\ response' = resp
          /\ last_prompt_tokens' = recorded_prompt_tokens(resp)
          /\ chat_history' = Append(chat_history, AIMessage(resp))
    /\ EndTurn(<<"iteration", "tokens", "task_done">>)
    /\ event' = Event("chain", "returned", <<>>)
    /\ calls' = calls + 1
    /\ UNCHANGED <<is_interactive_mode, initial_query, i, argv>>

\* Mutant of ProviderRequestsTools: response is appended before the dispatch.
ProviderRequestsTools_AppendsFirst ==
    /\ pc = "model_call"
    /\ \E resp \in Responses :
          /\ resp.tool_calls # <<>>
          /\ response' = resp
          /\ last_prompt_tokens' = recorded_prompt_tokens(resp)
          /\ chat_history' = Append(chat_history, AIMessage(resp))
    /\ tool_messages' = <<>>
    /\ pc' = "tools"
    /\ console' = <<"iteration", "tokens">>
    /\ event' = Event("chain", "returned", <<>>)
    /\ calls' = calls + 1
    /\ UNCHANGED <<is_interactive_mode, initial_query, i, argv>>

\* A response with tool calls: usage stored, process_tool_calls is entered.
ProviderRequestsTools ==
    /\ pc = "model_call"
    /\ \E resp \in Responses :
          /\ resp.tool_calls # <<>>
          /\ response' = resp
          /\ last_prompt_tokens' = recorded_prompt_tokens(resp)
    /\ tool_messages' = <<>>
    /\ pc' = "tools"
    /\ console' = <<"iteration", "tokens">>
    /\ event' = Event("chain", "returned", <<>>)
    /\ calls' = calls + 1
    /\ UNCHANGED <<is_interactive_mode, initial_query, chat_history, i, argv>>

\* The request process_tool_calls is at.
current_call == response.tool_calls[Len(tool_messages) + 1]

\* Mutant of AppendResults: the for loop runs one iteration too many.
AppendResults_OneMore(returned, notices) ==
    /\ chat_history' = (chat_history \o <<AIMessage(response)>>) \o returned
    /\ IF i + 1 <= max_iterations
         THEN /\ i' = i + 1
              /\ pc' = "model_call"
              /\ console' = notices
              /\ tool_messages' = <<>>
         ELSE /\ i' = i
              /\ EndTurn(notices \o <<"iteration_limit">>)

\* Mutant of AppendResults: the tool messages are appended before response.
AppendResults_ResultsFirst(returned, notices) ==
    /\ chat_history' = (chat_history \o returned) \o <<AIMessage(response)>>
    /\ IF i + 1 < max_iterations
         THEN /\ i' = i + 1
              /\ pc' = "model_call"
              /\ console' = notices
              /\ tool_messages' = <<>>
         ELSE /\ i' = i
              /\ EndTurn(notices \o <<"iteration_limit">>)

\* process_tool_calls has returned: response and the tool messages are
\* appended, and the for loop takes its next value or is exhausted.
AppendResults(returned, notices) ==
    /\ chat_history' = (chat_history \o <<AIMessage(response)>>) \o returned
    /\ IF i + 1 < max_iterations
         THEN /\ i' = i + 1
              /\ pc' = "model_call"
              /\ console' = notices
              /\ tool_messages' = <<>>
         ELSE /\ i' = i
              /\ EndTurn(notices \o <<"iteration_limit">>)

\* func.invoke was reached for this request.
Invoked(tool_call) == display_tool_call(tool_call) /\ Registered(tool_call.name)

\* One request of process_tool_calls; after the last one the function returns.
\* An exception that leaves process_tool_calls reaches main's outer handler:
\* a critical error is reported and the while loop goes round.
ToolCalled ==
    /\ pc = "tools"
    /\ \E outcome \in ToolOutcomes :
          LET r == tool_result(current_call, outcome) IN
          /\ event' = IF Invoked(current_call)
                        THEN Event("tool", outcome.kind, outcome.text)
                        ELSE Event("tool", "none", <<>>)
          /\ IF r.raised
               THEN /\ pc' = "prompt"
                    /\ console' = r.notices \o <<"critical_error">>
                    /\ tool_messages' = <<>>
                    /\ UNCHANGED <<chat_history, i>>
               ELSE IF Len(tool_messages) + 1 < Len(response.tool_calls)
                 THEN /\ tool_messages' = Append(tool_messages, r.message)
                      /\ console' = r.notices
                      /\ UNCHANGED <<chat_history, i, pc>>
                 ELSE AppendResults(Append(tool_messages, r.message), r.notices)
    /\ UNCHANGED <<is_interactive_mode, initial_query, last_prompt_tokens, response,
                   calls, argv>>

\* func.invoke is interrupted: KeyboardInterrupt is no Exception, the outer
\* handler breaks.
ToolInterrupted ==
    /\ pc = "tools"
    /\ Invoked(current_call)
    /\ Exit(<<"tool_call">>)
    /\ event' = Event("tool", "interrupted", <<>>)
    /\ UNCHANGED <<is_interactive_mode, initial_query, chat_history, last_prompt_tokens,
                   i, response, calls, argv>>

Next ==
    \/ Quit
    \/ PromptInterrupted
    \/ CompressCommand
    \/ CompressTooShort
    \/ EmptyInput
    \/ Query
    \/ SingleShotNoQuery
    \/ SingleShotEchoRaises
    \/ SingleShotQuery
    \/ ProviderFails
    \/ ProviderInterrupted
    \/ ProviderAnswers
    \/ ProviderRequestsTools
    \/ ToolCalled
    \/ ToolInterrupted

Spec == Init /\ [][Next]_vars

\* main is inside the for loop of a turn.
InTurn == pc \in {"model_call", "tools"}

\* The steps of a turn: a provider call or a tool invocation comes to its end.
TurnStep ==
    \/ ProviderFails
    \/ ProviderInterrupted
    \/ ProviderAnswers
    \/ ProviderRequestsTools
    \/ ToolCalled
    \/ ToolInterrupted

\* Every provider call and every tool invocation that was begun comes to an
\* end: it returns, raises or is interrupted.
LiveSpec == Spec /\ WF_vars(TurnStep)

\* ------------------------------------------- compress_chat_history, applied

\* Longest history compress_chat_history is applied to directly.
MaxUnitLen == 3

SummaryPrefix == <<"This is a summary of the previous conversation:\n">>

MessageSamples ==
    { HumanMessage(<<"list files">>),
      HumanMessage(SummaryPrefix \o <<"the user listed files">>),
      AIMessage(Response(<<>>, LoopUsage)) }

\* Histories of at most MaxUnitLen messages that begin with a user message.
HistorySamples ==
    UNION { { h \in [1..n -> MessageSamples] : n > 0 => h[1].role = "user" }
            : n \in 0..MaxUnitLen }

\* An interactive session at its prompt (pc = "prompt"), or a direct call of
\* compress_chat_history (pc = "unit"), on a sampled history.
InitCompress ==
    /\ argv = <<>>
    /\ is_interactive_mode = TRUE
    /\ initial_query = <<>>
    /\ chat_history \in HistorySamples
    /\ last_prompt_tokens \in { 0, prompt_of(LoopUsage) }
    /\ pc \in { "prompt", "unit" }
    /\ i = 0
    /\ response = NoResponse
    /\ tool_messages = <<>>
    /\ console = <<>>
    /\ event = NoEvent
    /\ calls = 0

\* compress_chat_history(chat_history, CONFIG) called on its own.
UnitCompress ==
    /\ pc = "unit"
    /\ \E outcome \in CompressOutcomes \ {Interrupted} :
          LET r == compress_chat_history(chat_history, outcome) IN
          /\ chat_history' = r.history
          /\ console' = r.notices
          /\ event' = Event("compressor", outcome.kind, outcome.text)
    /\ pc' = "unit_done"
    /\ UNCHANGED <<is_interactive_mode, initial_query, last_prompt_tokens, i, response,
                   tool_messages, calls, argv>>

NextCompress ==
    \/ UnitCompress
    \/ CompressCommand
    \/ CompressTooShort

CompressSpec == InitCompress /\ [][NextCompress]_vars

\* ------------------------------------------------ the context bar, applied

\* The sampled token counts go from 0 to MaxTokenSteps fortieths of
\* MAX_CONTEXT_TOKENS.
MaxTokenSteps == 60

TokenSamples ==
    { (k * MAX_CONTEXT_TOKENS) \div 40 : k \in 0..MaxTokenSteps }
        \cup { 1, MAX_CONTEXT_TOKENS - 1, MAX_CONTEXT_TOKENS, MAX_CONTEXT_TOKENS + 1 }

Min(a, b) == IF a <= b THEN a ELSE b

\* Mutant of context_percent: no min().
context_percent_unclamped(tokens) == tokens * 100

\* context_percent = min(100.0, (last_prompt_tokens / MAX_CONTEXT_TOKENS) * 100),
\* as the exact fraction with denominator MAX_CONTEXT_TOKENS: the value here
\* is its numerator, so that 100 percent is 100 * MAX_CONTEXT_TOKENS.
context_percent(tokens) == Min(100 * MAX_CONTEXT_TOKENS, tokens * 100)

\* filled = int(bar_length * context_percent / 100), with bar_length = 20.
filled(tokens) == (20 * context_percent(tokens)) \div (100 * MAX_CONTEXT_TOKENS)

\* An interactive session about to show its context bar, on a sampled count.
InitPercent ==
    /\ argv = <<>>
    /\ is_interactive_mode = TRUE
    /\ initial_query = <<>>
    /\ chat_history = <<>>
    /\ last_prompt_tokens \in TokenSamples
    /\ pc = "context_bar"
    /\ i = 0
    /\ response = NoResponse
    /\ tool_messages = <<>>
    /\ console = <<>>
    /\ event = NoEvent
    /\ calls = 0

\* The context bar before the prompt: console holds the percentage and the
\* number of filled cells it prints, nothing when the count is 0.
ShowContext ==
    /\ pc = "context_bar"
    /\ console' = IF last_prompt_tokens > 0
                    THEN <<context_percent(last_prompt_tokens), filled(last_prompt_tokens)>>
                    ELSE <<>>
    /\ pc' = "context_shown"
    /\ UNCHANGED <<is_interactive_mode, initial_query, chat_history, last_prompt_tokens,
                   i, response, tool_messages, event, calls, argv>>

NextPercent == ShowContext

PercentSpec == InitPercent /\ [][NextPercent]_vars

\* ------------------------------------------------------------------ helpers

Has(seq, x) == \E j \in 1..Len(seq) : seq[j] = x

IsPrefix(s, t) == Len(s) <= Len(t) /\ SubSeq(t, 1, Len(s)) = s

\* sub occurs in text as a run of consecutive tokens.
Contains(text, sub) ==
    \E k \in 0..(Len(text) - Len(sub)) : SubSeq(text, k + 1, k + Len(sub)) = sub

\* results answers requests one for one, in order.
AnswersAll(requests, results) ==
    /\ Len(results) = Len(requests)
    /\ \A k \in 1..Len(requests) :
          results[k].role = "tool" /\ results[k].tool_call_id = requests[k].id

\* The tool message a step of process_tool_calls has just produced.
Produced(tms, history, at) == IF at = "tools" THEN tms[Len(tms)] ELSE history[Len(history)]

\* Where a turn that has ended leaves main.
TurnEnded(at) == at = (IF is_interactive_mode THEN "prompt" ELSE "exit")

\* ------------------------------------------------------------------- claims

\* C1: process_tool_calls, handed n requests, returns n tool messages, the
\* k-th carrying the id of the k-th request: every step of the dispatcher that
\* is not an interrupt either stays in it or returns with response and its n
\* results appended to chat_history.
C1_DispatcherAnswersEveryRequest ==
    [][ (pc = "tools" /\ event'.result # "interrupted")
          => \/ pc' = "tools"
             \/ /\ Len(chat_history') = Len(chat_history) + 1 + Len(response.tool_calls)
                /\ AnswersAll(response.tool_calls,
                              SubSeq(chat_history', Len(chat_history) + 2, Len(chat_history')))
      ]_vars

\* C2: a turn issues at most max_iterations provider calls, and no step of a
\* turn, the one that reaches the cap included, removes or reorders a message
\* of chat_history.
C2_IterationCap ==
    /\ [](calls <= max_iterations)
    /\ [][ (pc \in {"model_call", "tools"}) => IsPrefix(chat_history, chat_history') ]_vars

C2_CapReached ==
    /\ Has(console, "iteration_limit")
    /\ calls = max_iterations
    /\ Len(chat_history) = 1 + 2 * max_iterations

\* C3: a provider call that raises ends the turn at once: chat_history is what
\* it was when the call was issued, no tool is dispatched, and the step after
\* it is neither a provider call nor a tool call of that turn.
C3_ProviderFailureAborts ==
    [][ /\ (event'.kind = "chain" /\ event'.result = "raised")
            => /\ chat_history' = chat_history
               /\ TurnEnded(pc')
               /\ Has(console', "model_error")
               /\ calls' = calls + 1
               /\ tool_messages' = <<>>
        /\ (event.kind = "chain" /\ event.result = "raised")
            => (event'.kind # "tool" /\ (event'.kind = "chain" => calls' = 1))
      ]_vars

C3_AbortedOnFirstCall ==
    /\ event.kind = "chain" /\ event.result = "raised"
    /\ Has(console, "model_error")
    /\ calls = 1
    /\ Len(chat_history) = 1

\* C4: a response without tool calls is appended as the one new message, the
\* turn is complete, and the step after it is neither a provider call nor a
\* tool call of that turn.
C4_AnswerCompletesTurn ==
    [][ /\ (event'.kind = "chain" /\ event'.result = "returned" /\ response'.tool_calls = <<>>)
            => /\ chat_history' = Append(chat_history, AIMessage(response'))
               /\ TurnEnded(pc')
               /\ Has(console', "task_done")
               /\ calls' = calls + 1
               /\ tool_messages' = <<>>
        /\ (event.kind = "chain" /\ event.result = "returned" /\ response.tool_calls = <<>>)
            => (event'.kind # "tool" /\ (event'.kind = "chain" => calls' = 1))
      ]_vars

C4_AnsweredAtOnce ==
    /\ Has(console, "task_done")
    /\ calls = 1
    /\ Len(chat_history) = 2
    /\ chat_history[1].role = "user"
    /\ chat_history[2].role = "assistant"

\* The position of the nearest assistant message before position j, 0 when none.
PrecedingAssistant(history, j) ==
    LET before == { a \in 1..(j - 1) : history[a].role = "assistant" } IN
    IF before = {} THEN 0 ELSE CHOOSE a \in before : \A b \in before : b <= a

\* C5: every tool message of chat_history answers a request of the nearest
\* assistant message before it, and the k-th tool message after an assistant
\* message carries the id of that message's k-th request.
C5_ResultsAnswerPrecedingAssistant ==
    \A j \in 1..Len(chat_history) :
        chat_history[j].role = "tool" =>
            LET a == PrecedingAssistant(chat_history, j) IN
            /\ a # 0
            /\ j - a <= Len(chat_history[a].tool_calls)
            /\ chat_history[j].tool_call_id = chat_history[a].tool_calls[j - a].id
            /\ \A m \in (a + 1)..j : chat_history[m].role = "tool"

C5_CallThenAnswer ==
    /\ Len(chat_history) = 4
    /\ chat_history[1].role = "user"
    /\ chat_history[2].role = "assistant" /\ Len(chat_history[2].tool_calls) = 1
    /\ chat_history[3].role = "tool"
    /\ chat_history[3].tool_call_id = chat_history[2].tool_calls[1].id
    /\ chat_history[4].role = "assistant" /\ chat_history[4].tool_calls = <<>>

\* C6: a request for a name that is not registered gets a tool message with
\* its id whose content contains the name, and no exception leaves
\* process_tool_calls.
C6_UnknownToolYieldsFailureResult ==
    [][ (pc = "tools" /\ ~Registered(current_call.name))
          => /\ ~Has(console', "critical_error")
             /\ LET m == Produced(tool_messages', chat_history', pc') IN
                /\ m.role = "tool"
                /\ m.tool_call_id = current_call.id
                /\ Contains(m.content, current_call.name)
      ]_vars

\* C7: when a registered tool raises, no exception leaves process_tool_calls;
\* a tool message with the request's id is produced whose content holds the
\* tool name and the escaped error detail; the next request is dispatched
\* next, or, after the last one, the results are returned and appended.
C7_ToolFailureBecomesResult ==
    [][ (pc = "tools" /\ event'.kind = "tool" /\ event'.result = "raised")
          => /\ ~Has(console', "critical_error")
             /\ LET m == Produced(tool_messages', chat_history', pc') IN
                /\ m.role = "tool"
                /\ m.tool_call_id = current_call.id
                /\ Contains(m.content, current_call.name)
                /\ Contains(m.content, escape(event'.text))
                /\ IF Len(tool_messages) + 1 < Len(response.tool_calls)
                     THEN /\ pc' = "tools"
                          /\ tool_messages' = Append(tool_messages, m)
                          /\ response' = response
                     ELSE chat_history' =
                            (chat_history \o <<AIMessage(response)>>)
                                \o Append(tool_messages, m)
      ]_vars

C7_FailureThenNextRequest ==
    /\ pc = "tools"
    /\ event.kind = "tool" /\ event.result = "raised"
    /\ Len(tool_messages) >= 1
    /\ Len(tool_messages) < Len(response.tool_calls)
    /\ Contains(tool_messages[Len(tool_messages)].content, escape(event.text))

\* C8: a compression of more than one message whose provider call returns a
\* summary leaves exactly one user message, the fixed prefix followed by the
\* summary.
C8_CompressionYieldsOneSummaryMessage ==
    [][ (event'.kind = "compressor" /\ event'.result = "returned" /\ Len(chat_history) > 1)
          => chat_history' = <<HumanMessage(SummaryPrefix \o event'.text)>>
      ]_vars

\* C9: a compression whose provider call raises or is interrupted leaves
\* chat_history as it was.
C9_FailedCompressionKeepsHistory ==
    [][ (event'.kind = "compressor" /\ event'.result \in {"raised", "interrupted"})
          => chat_history' = chat_history
      ]_vars

C9_CompressionFailed ==
    /\ event.kind = "compressor" /\ event.result = "raised"
    /\ Has(console, "compress_error")
    /\ Len(chat_history) > 1

\* C10, as claimed: compress on a history of at most one message, by the
\* /compress command or by compress_chat_history itself, changes nothing and
\* calls no provider.
C10_CompressOfShortHistoryIsNoOp ==
    [][ (pc \in {"prompt", "unit"} /\ Len(chat_history) <= 1)
          => (chat_history' = chat_history /\ event'.kind # "compressor")
      ]_vars

\* C10, amended: the /compress command on a history of at most one message
\* changes neither chat_history nor the stored usage and calls no provider;
\* compress_chat_history itself has no such guard and calls the provider on
\* any history.
C10_CommandGuardsCompression ==
    [][ /\ (pc = "prompt" /\ Len(chat_history) <= 1)
            => /\ chat_history' = chat_history
               /\ last_prompt_tokens' = last_prompt_tokens
               /\ event'.kind # "compressor"
               /\ Has(console', "too_short")
        /\ pc = "unit" => event'.kind = "compressor"
      ]_vars

C10_TooShortNotice ==
    /\ pc = "prompt"
    /\ Has(console, "too_short")
    /\ Len(chat_history) = 1
    /\ event.kind = "input"

\* C11: started with arguments, the program runs exactly one turn: its first
\* step appends the arguments joined with single spaces as the one user
\* message and enters the turn; the turn ends complete, aborted (provider
\* failure or interrupt) or at the iteration limit, and the program exits
\* then; no line is ever read from a prompt.
C11_SingleShotRunsOneTurn ==
    [][ ~is_interactive_mode =>
          /\ (pc = "prompt")
                => /\ pc' = "model_call"
                   /\ chat_history' = <<HumanMessage(join(argv))>>
          /\ (pc \in {"model_call", "tools"})
                => \/ pc' \in {"model_call", "tools"}
                   \/ /\ pc' = "exit"
                      /\ \/ Has(console', "task_done")
                         \/ Has(console', "model_error")
                         \/ Has(console', "iteration_limit")
                         \/ event'.result = "interrupted"
          /\ event'.kind # "input"
      ]_vars

\* The notices that report an error.
ErrorNotices == { "model_error", "critical_error", "tool_error", "compress_error", "need_query" }

ReportsError(notices) == \E j \in 1..Len(notices) : notices[j] \in ErrorNotices

\* C12, as claimed: an interrupt keeps every message of chat_history and
\* reports no error, and an interrupted provider call ends the turn as a
\* failed one does, with nothing appended: in interactive mode main is back
\* at its prompt.
C12_InterruptHandledAsProviderFailure ==
    [][ (event'.result = "interrupted")
          => /\ chat_history' = chat_history
             /\ ~ReportsError(console')
             /\ (event'.kind = "chain") => TurnEnded(pc')
      ]_vars

\* C12, amended: an interrupt of the prompt, of a provider call, of a tool
\* or of a compression keeps chat_history as it was, reports no error and
\* ends the program, in interactive mode too; an interrupted provider call
\* counts as a call of the turn and appends nothing.
C12_InterruptEndsProgram ==
    [][ (event'.result = "interrupted")
          => /\ chat_history' = chat_history
             /\ ~ReportsError(console')
             /\ pc' = "exit"
             /\ Has(console', "exit")
             /\ (event'.kind = "chain") => calls' = calls + 1
      ]_vars

C12_InterruptedProviderCall ==
    /\ is_interactive_mode
    /\ event.kind = "chain" /\ event.result = "interrupted"
    /\ pc = "exit"
    /\ calls = 2
    /\ Len(chat_history) = 3

\* C13: in interactive mode a provider call that raises leaves main at its
\* prompt, not exited, with chat_history as it was; a query typed next
\* appends its user message to that chat_history and starts a new turn, and
\* the next step is the provider call, made on that chat_history.
C13_ProviderFailureRecovered ==
    [][ is_interactive_mode =>
          /\ (event'.kind = "chain" /\ event'.result = "raised")
                => /\ pc' = "prompt"
                   /\ chat_history' = chat_history
                   /\ ~Has(console', "exit")
          /\ (event.kind = "chain" /\ event.result = "raised" /\ pc' = "model_call")
                => /\ event'.kind = "input"
                   /\ chat_history' = Append(chat_history, HumanMessage(event'.line))
                   /\ calls' = 0
          /\ (pc = "model_call" /\ calls = 0)
                => /\ event'.kind = "chain"
                   /\ calls' = 1
                   /\ IsPrefix(chat_history, chat_history')
      ]_vars

C13_NewTurnAfterFailure ==
    /\ is_interactive_mode
    /\ pc = "model_call" /\ calls = 0
    /\ event.kind = "input"
    /\ response = NoResponse
    /\ Len(chat_history) = 2
    /\ chat_history[1].role = "user" /\ chat_history[2].role = "user"

\* The value a usage_metadata reports under the first of keys it holds, 0
\* when it holds none of them.
RECURSIVE Reported(_, _)
Reported(usage, keys) ==
    IF keys = <<>> THEN 0
    ELSE IF HasKey(usage, Head(keys)) THEN usage_get(usage, Head(keys))
    ELSE Reported(usage, Tail(keys))

ReportedPrompt(usage) == Reported(usage, <<"prompt_tokens", "input_tokens">>)

ReportedCompletion(usage) ==
    Reported(usage, <<"completion_tokens", "output_tokens", "generated_tokens">>)

\* C14: after a provider call that returns, last_prompt_tokens is the prompt
\* count the response reports, 0 when it reports no usage or no prompt
\* count; a call that raises or is interrupted leaves last_prompt_tokens as
\* it was; the total of a usage that holds no total is prompt + completion.
C14_UsageRecorded ==
    /\ [][ /\ (event'.kind = "chain" /\ event'.result = "returned")
               => last_prompt_tokens' = ReportedPrompt(response'.usage)
           /\ (event'.kind = "chain" /\ event'.result # "returned")
               => last_prompt_tokens' = last_prompt_tokens
         ]_vars
    /\ [](~HasKey(response.usage, "total_tokens")
            => total_of(response.usage)
                 = ReportedPrompt(response.usage) + ReportedCompletion(response.usage))

C14_FailedCallKeepsUsage ==
    /\ event.kind = "chain" /\ event.result = "raised"
    /\ calls = 2
    /\ response.usage # {}
    /\ ~HasKey(response.usage, "total_tokens")
    /\ last_prompt_tokens = 200000
    /\ total_of(response.usage) = 200005

\* C15: the step in which a compression replaces chat_history leaves
\* last_prompt_tokens at 0, and last_prompt_tokens changes in no step but a
\* /compress command and a provider call of a turn that returns, so that it
\* stays 0 until such a call.
C15_CompressionZeroesUsage ==
    [][ /\ (event'.kind = "compressor" /\ chat_history' # chat_history)
            => last_prompt_tokens' = 0
        /\ (last_prompt_tokens' # last_prompt_tokens)
            => \/ event'.kind = "compressor"
               \/ event'.kind = "chain" /\ event'.result = "returned"
      ]_vars

\* The context bar printed in the step shows that the stored count was above 0.
C15_UsageZeroedBySummary ==
    /\ event.kind = "compressor" /\ event.result = "returned"
    /\ Has(console, "context") /\ Has(console, "compressed")
    /\ Len(chat_history) = 1
    /\ last_prompt_tokens = 0

\* C16: the percentage shown for a stored count x above 0 lies in [0, 100],
\* is 100 for every x >= MAX_CONTEXT_TOKENS, and is not below the percentage
\* of any smaller count; the percentage of 0 is 0.
C16_PercentageClampedAndMonotonic ==
    /\ context_percent(0) = 0
    /\ (pc = "context_shown" /\ last_prompt_tokens > 0) =>
          /\ 0 <= console[1] /\ console[1] <= 100 * MAX_CONTEXT_TOKENS
          /\ last_prompt_tokens >= MAX_CONTEXT_TOKENS => console[1] = 100 * MAX_CONTEXT_TOKENS
          /\ \A smaller \in TokenSamples :
                smaller <= last_prompt_tokens => context_percent(smaller) <= console[1]
          /\ \A larger \in TokenSamples :
                larger >= last_prompt_tokens => context_percent(larger) >= console[1]

C16_OverfullContext ==
    /\ pc = "context_shown"
    /\ last_prompt_tokens > MAX_CONTEXT_TOKENS + 1
    /\ console = <<100 * MAX_CONTEXT_TOKENS, 20>>

\* C17: a line read at the interactive prompt is handled by its trimmed,
\* lower-cased form: exit, quit or q ends the session; /compress is handled
\* as the compression command and main stays at its prompt; an empty or
\* blank line changes nothing; in these cases chat_history gets no user
\* message appended, and no step at the prompt calls the turn's provider;
\* any other line is appended as the user message of a new turn.
C17_CommandsStartNoTurn ==
    [][ (pc = "prompt" /\ is_interactive_mode /\ event'.result # "interrupted")
          => LET line == event'.line
                 word == lower(strip(line)) IN
             /\ event'.kind \in {"input", "compressor"}
             /\ IF word \in { <<"exit">>, <<"quit">>, <<"q">> }
                  THEN /\ pc' = "exit"
                       /\ chat_history' = chat_history
                ELSE IF word = <<"/compress">>
                  THEN /\ pc' = "prompt"
                       /\ \/ chat_history' = chat_history
                          \/ /\ event'.kind = "compressor"
                             /\ Len(chat_history') = 1
                             /\ IsPrefix(SummaryPrefix, chat_history'[1].content)
                ELSE IF strip(line) = <<>>
                  THEN /\ pc' = "prompt"
                       /\ event'.kind = "input"
                       /\ chat_history' = chat_history
                ELSE /\ pc' = "model_call"
                     /\ event'.kind = "input"
                     /\ chat_history' = Append(chat_history, HumanMessage(line))
      ]_vars

C17_ExitAfterATurn ==
    /\ pc = "exit"
    /\ event.kind = "input"
    /\ event.line = <<" ", "EXIT">>
    /\ Len(chat_history) = 2
    /\ chat_history[2].role = "assistant"

\* C18, as claimed: while a tool is being invoked for a request, the
\* assistant message carrying that request is the last assistant message of
\* chat_history.
C18_ResponseAppendedBeforeDispatch ==
    pc = "tools" =>
        LET a == PrecedingAssistant(chat_history, Len(chat_history) + 1) IN
        a # 0 /\ chat_history[a] = AIMessage(response)

\* C18, amended: while process_tool_calls runs, chat_history ends with the
\* user message or with a tool message of the iteration before, and does not
\* hold the response yet; the step that ends the dispatch appends the
\* response and, after it, one tool message for each of its requests, in
\* order; a dispatch that is interrupted or left by an exception appends
\* nothing.
C18_ResponseAppendedAfterDispatch ==
    /\ [](pc = "tools" =>
            /\ chat_history[Len(chat_history)].role \in {"user", "tool"}
            /\ chat_history[Len(chat_history)] # AIMessage(response))
    /\ [][ (pc = "tools")
             => \/ chat_history' = chat_history
                \/ /\ pc' # "tools"
                   /\ Len(chat_history') = Len(chat_history) + 1 + Len(response.tool_calls)
                   /\ IsPrefix(Append(chat_history, AIMessage(response)), chat_history')
                   /\ AnswersAll(response.tool_calls,
                                 SubSeq(chat_history', Len(chat_history) + 2, Len(chat_history')))
         ]_vars

C18_ResultHeldBackDuringDispatch ==
    /\ pc = "tools"
    /\ event.kind = "tool" /\ event.result = "returned"
    /\ Len(tool_messages) = 1
    /\ Len(response.tool_calls) = 2
    /\ Len(chat_history) = 1

\* C19: a request that fails, for a name that is not registered or by a tool
\* that raises, does not end the turn: its tool message is produced, the next
\* request is dispatched or, after the last one, the tool message is in
\* chat_history and main goes to the next provider call, unless the
\* iteration limit is reached.
C19_ToolFailureNeverEndsTurn ==
    [][ (/\ pc = "tools"
         /\ \/ ~Registered(current_call.name)
            \/ event'.kind = "tool" /\ event'.result = "raised")
          => LET m == Produced(tool_messages', chat_history', pc') IN
             /\ m.role = "tool"
             /\ m.tool_call_id = current_call.id
             /\ \/ pc' = "tools" /\ tool_messages' = Append(tool_messages, m)
                \/ pc' = "model_call" /\ i' = i + 1
                \/ i + 1 = max_iterations /\ Has(console', "iteration_limit")
      ]_vars

\* C20: chat_history is replaced only in a step that handles a /compress
\* line typed at the prompt; every other step leaves the old chat_history an
\* unchanged prefix of the new one; and whatever last_prompt_tokens is, the
\* step taken where the turn is due to call the provider is that call.
C20_HistoryAppendOnly ==
    [][ /\ (event'.kind # "compressor") => IsPrefix(chat_history, chat_history')
        /\ (event'.kind = "compressor")
              => (pc = "prompt" /\ lower(strip(event'.line)) = <<"/compress">>)
        /\ (pc = "model_call") => (event'.kind = "chain" /\ calls' = calls + 1)
      ]_vars

\* A second provider call was issued with the stored count above the limit.
C20_CalledWithFullContext ==
    /\ event.kind = "chain" /\ event.result = "raised"
    /\ calls = 2
    /\ last_prompt_tokens > MAX_CONTEXT_TOKENS
    /\ Len(chat_history) = 3

\* C21: the iteration-limit notice is printed exactly by the step that ends
\* the dispatch of the max_iterations-th response of a turn, every response
\* of the turn having carried a request: that step appends the response and
\* its tool messages and ends the turn, and a turn whose max_iterations-th
\* dispatch ends without an interrupt prints the notice; a step that
\* completes the turn or reports a provider failure does not print it.
C21_LimitNoticeExactlyAtCap ==
    [][ /\ Has(console', "iteration_limit")
            => /\ pc = "tools"
               /\ calls = max_iterations
               /\ response.tool_calls # <<>>
               /\ TurnEnded(pc')
               /\ Len(chat_history') = Len(chat_history) + 1 + Len(response.tool_calls)
               /\ IsPrefix(Append(chat_history, AIMessage(response)), chat_history')
               /\ AnswersAll(response.tool_calls,
                             SubSeq(chat_history', Len(chat_history) + 2, Len(chat_history')))
        /\ (pc = "tools" /\ calls = max_iterations /\ pc' # "tools"
              /\ event'.result # "interrupted")
            => Has(console', "iteration_limit")
        /\ (Has(console', "task_done") \/ Has(console', "model_error"))
            => ~Has(console', "iteration_limit")
      ]_vars

\* The outcomes of a turn the step has printed.
Outcomes(notices) == { n \in {"task_done", "model_error", "iteration_limit"} : Has(notices, n) }

\* Every turn that was begun ends.
TurnEnds == InTurn ~> ~InTurn

\* C22: every turn ends, and the step that ends a turn without an interrupt
\* prints exactly one of the three outcomes (completion, provider failure,
\* iteration limit) and leaves main at its prompt in interactive mode and
\* exited in single-shot mode.
C22_TurnEndsInOneOfThreeOutcomes ==
    /\ [][ (InTurn /\ ~InTurn' /\ event'.result # "interrupted")
             => /\ Cardinality(Outcomes(console')) = 1
                /\ TurnEnded(pc')
         ]_vars
    /\ TurnEnds

\* C23: a /compress line typed while chat_history holds more than one
\* message leaves last_prompt_tokens at 0 when compress_chat_history
\* returns, with the summary or, after a failure, with the old chat_history;
\* typed while chat_history holds at most one message it leaves
\* last_prompt_tokens and chat_history as they were.  (A compression that is
\* interrupted does not return: the program ends.)
C23_CompressCommandZeroesUsage ==
    [][ (pc = "prompt" /\ is_interactive_mode
           /\ lower(strip(event'.line)) = <<"/compress">>)
          => IF Len(chat_history) > 1
               THEN /\ event'.kind = "compressor"
                    /\ IF event'.result = "interrupted"
                         THEN pc' = "exit"
                         ELSE /\ last_prompt_tokens' = 0
                              /\ pc' = "prompt"
                              /\ Has(console', "compress_error")
                                    => chat_history' = chat_history
               ELSE /\ event'.kind = "input"
                    /\ last_prompt_tokens' = last_prompt_tokens
                    /\ chat_history' = chat_history
      ]_vars

\* The context bar printed in the step shows that the stored count was above 0.
C23_FailedCompressionZeroedUsage ==
    /\ event.kind = "compressor" /\ event.result = "raised"
    /\ Has(console, "context") /\ Has(console, "compress_error")
    /\ Len(chat_history) = 2
    /\ last_prompt_tokens = 0

====
